---- MODULE Spec2Model ----
(***************************************************************************)
(* Tip-pooling calculator: the calculate route (Allocator + Bill Rounder), *)
(* the distribution history and the in-memory partner store.               *)
(*                                                                         *)
(* Numbers are JavaScript numbers.  A finite number is modelled as an      *)
(* exact rational n/d in lowest terms (so equal numbers are equal          *)
(* records); the non-finite values and the missing field (undefined) are   *)
(* separate kinds.  A product whose magnitude exceeds MaxValue overflows   *)
(* to +/-Infinity, as a double does beyond Number.MAX_VALUE.               *)
(***************************************************************************)
EXTENDS Integers, Sequences, FiniteSets, TLC

\* partners, partnerId: the partner store; distributions: the saved history;
\* request, response: the exchange in flight; probe: a history variable that
\* remembers the first calculate exchange (used only to compare invocations);
\* analysis: what analyzeImage returned to the OCR route of the exchange in
\* flight; inflight: the partner exchanges of concurrent clients
VARIABLES partners, partnerId, distributions, request, response, probe,
          analysis, inflight

vars == <<partners, partnerId, distributions, request, response, probe,
          analysis, inflight>>

(* ---------------------------- bounds ----------------------------------- *)

\* longest partnerHours list a request carries
MaxPartners == 2
\* most records created in the partner store and in the history
MaxStored == 2
\* stand-in for Number.MAX_VALUE: larger magnitudes overflow to Infinity
MaxValue == 10000

(* ------------------------- JavaScript numbers -------------------------- *)

Abs(x) == IF x < 0 THEN -x ELSE x

RECURSIVE GCD(_, _)
GCD(a, b) == IF b = 0 THEN a ELSE GCD(b, a % b)

Rat(n, d) ==
    LET g == GCD(Abs(n), d)
    IN  [k |-> "num", n |-> n \div g, d |-> d \div g]

Infinity == [k |-> "inf", n |-> 1, d |-> 1]
NegInfinity == [k |-> "inf", n |-> -1, d |-> 1]
NaN == [k |-> "nan", n |-> 0, d |-> 1]
Undefined == [k |-> "undefined", n |-> 0, d |-> 1]

\* isFinite(v): undefined coerces to NaN
IsFinite(v) == v.k = "num"

\* v <= 0: false for NaN and undefined, true for -Infinity
LeZero(v) == (v.k \in {"num", "inf"}) /\ v.n <= 0

\* v < 0
LtZero(v) == (v.k \in {"num", "inf"}) /\ v.n < 0

Sign(x) == IF x < 0 THEN -1 ELSE IF x = 0 THEN 0 ELSE 1

\* a * b on doubles: exact while the result is representable, Infinity beyond
Times(a, b) ==
    IF a.k \in {"nan", "undefined"} \/ b.k \in {"nan", "undefined"} THEN NaN
    ELSE IF a.k = "inf" \/ b.k = "inf"
         THEN IF a.n = 0 \/ b.n = 0 THEN NaN
              ELSE IF Sign(a.n) * Sign(b.n) > 0 THEN Infinity ELSE NegInfinity
    ELSE IF Abs(a.n * b.n) > MaxValue * (a.d * b.d)
         THEN IF Sign(a.n) * Sign(b.n) > 0 THEN Infinity ELSE NegInfinity
    ELSE Rat(a.n * b.n, a.d * b.d)

\* exact arithmetic on finite numbers, used to state the properties
Plus(a, b) == Rat(a.n * b.d + b.n * a.d, a.d * b.d)
Minus(a, b) == Rat(a.n * b.d - b.n * a.d, a.d * b.d)
Leq(a, b) == a.n * b.d <= b.n * a.d
Quotient(a, b) == Rat(a.n * b.d, a.d * b.n)

(* --------------------------- Bill Rounder ------------------------------ *)

\* mutant: a denomination set that has lost the one-cent coin
DenominationsNoCent == <<2000, 1000, 500, 100, 25, 10, 5>>

\* the denomination set, in cents, largest first
Denominations == <<2000, 1000, 500, 100, 25, 10, 5, 1>>

\* step 1: nearest cent, half-up (payout >= 0)
RoundToCents(payout) == (200 * payout.n + payout.d) \div (2 * payout.d)

\* step 2: the greedy walk from denomination i on; counts[i] = floor(remaining / d)
RECURSIVE GreedyWalk(_, _, _)
GreedyWalk(remaining, i, counts) ==
    IF i > Len(Denominations) \/ remaining = 0
    THEN [remaining |-> remaining, counts |-> counts]
    ELSE LET count == remaining \div Denominations[i]
         IN  GreedyWalk(remaining - count * Denominations[i], i + 1,
                        IF count # 0
                        THEN [d \in DOMAIN counts \cup {Denominations[i]} |->
                                 IF d = Denominations[i] THEN count ELSE counts[d]]
                        ELSE counts)

roundAndCalculateBills(payout) ==
    IF ~IsFinite(payout) THEN [error |-> "NonFiniteInput"]
    ELSE IF LtZero(payout) THEN [error |-> "NegativePayout"]
    ELSE LET cents == RoundToCents(payout)
         IN  [error |-> "", rounded |-> Rat(cents, 100),
              billBreakdown |-> GreedyWalk(cents, 1, <<>>).counts]

(* ----------------------------- Allocator ------------------------------- *)

calculatePayout(hours, hourlyRate) == Times(hours, hourlyRate)

\* the PartnerHours schema: a non-empty name and finite hours > 0
partnerHoursSchema(partnerHours) ==
    \A i \in DOMAIN partnerHours :
        /\ partnerHours[i].name # ""
        /\ IsFinite(partnerHours[i].hours)
        /\ ~LeZero(partnerHours[i].hours)

(* --------------------- POST /api/distributions/calculate --------------- *)

\* mutant: the validation without the totalHours check
ValidationErrorNoHours(body) ==
    IF ~body.partnerHours.isArray \/ Len(body.partnerHours.items) = 0
    THEN "Partner hours data is missing or empty"
    ELSE IF LeZero(body.totalAmount) \/ ~IsFinite(body.totalAmount)
    THEN "Total amount must be a positive number"
    ELSE IF LeZero(body.hourlyRate) \/ ~IsFinite(body.hourlyRate)
    THEN "Hourly rate must be a positive number"
    ELSE IF ~partnerHoursSchema(body.partnerHours.items)
    THEN "Invalid partner hours data"
    ELSE ""

\* mutant: the validation with the totalAmount check ahead of the empty check
ValidationErrorAmountFirst(body) ==
    IF LeZero(body.totalAmount) \/ ~IsFinite(body.totalAmount)
    THEN "Total amount must be a positive number"
    ELSE IF ~body.partnerHours.isArray \/ Len(body.partnerHours.items) = 0
    THEN "Partner hours data is missing or empty"
    ELSE IF LeZero(body.totalHours) \/ ~IsFinite(body.totalHours)
    THEN "Total hours must be a positive number"
    ELSE IF LeZero(body.hourlyRate) \/ ~IsFinite(body.hourlyRate)
    THEN "Hourly rate must be a positive number"
    ELSE IF ~partnerHoursSchema(body.partnerHours.items)
    THEN "Invalid partner hours data"
    ELSE ""

\* the validation of the request body; "" when the body is accepted
ValidationError(body) ==
    IF ~body.partnerHours.isArray \/ Len(body.partnerHours.items) = 0
    THEN "Partner hours data is missing or empty"
    ELSE IF LeZero(body.totalAmount) \/ ~IsFinite(body.totalAmount)
    THEN "Total amount must be a positive number"
    ELSE IF LeZero(body.totalHours) \/ ~IsFinite(body.totalHours)
    THEN "Total hours must be a positive number"
    ELSE IF LeZero(body.hourlyRate) \/ ~IsFinite(body.hourlyRate)
    THEN "Hourly rate must be a positive number"
    ELSE IF ~partnerHoursSchema(body.partnerHours.items)
    THEN "Invalid partner hours data"
    ELSE ""

\* the test that makes the map callback throw
PayoutInvalid(partner, hourlyRate) ==
    LET payout == calculatePayout(partner.hours, hourlyRate)
    IN  ~IsFinite(payout) \/ LtZero(payout)

\* mutant: the callback returns the exact payout as the rounded amount
PartnerPayoutUnrounded(partner, hourlyRate) ==
    LET payout == calculatePayout(partner.hours, hourlyRate)
        bills == roundAndCalculateBills(payout)
    IN  [name |-> partner.name, hours |-> partner.hours, payout |-> payout,
         rounded |-> payout, billBreakdown |-> bills.billBreakdown]

\* the record the map callback returns for one partner
PartnerPayout(partner, hourlyRate) ==
    LET payout == calculatePayout(partner.hours, hourlyRate)
        bills == roundAndCalculateBills(payout)
    IN  [name |-> partner.name, hours |-> partner.hours, payout |-> payout,
         rounded |-> bills.rounded, billBreakdown |-> bills.billBreakdown]

\* mutant: a partner with an invalid payout is skipped instead of failing the request
PartnerPayoutsSkipping(items, hourlyRate) ==
    LET kept == SelectSeq(items, LAMBDA p : ~PayoutInvalid(p, hourlyRate))
    IN  [threw |-> FALSE,
         payouts |-> [i \in DOMAIN kept |->
                         LET payout == calculatePayout(kept[i].hours, hourlyRate)
                             bills == roundAndCalculateBills(payout)
                         IN  [name |-> kept[i].name, hours |-> kept[i].hours,
                              payout |-> payout, rounded |-> bills.rounded,
                              billBreakdown |-> bills.billBreakdown]]]

\* partnerHours.map(...): the callback throws on the first invalid payout and
\* the whole map is abandoned
PartnerPayouts(items, hourlyRate) ==
    IF \E i \in DOMAIN items : PayoutInvalid(items[i], hourlyRate)
    THEN [threw |-> TRUE, payouts |-> <<>>]
    ELSE [threw |-> FALSE,
          payouts |-> [i \in DOMAIN items |-> PartnerPayout(items[i], hourlyRate)]]

CalculateResponse(body) ==
    LET err == ValidationError(body)
    IN  IF err # "" THEN [status |-> 400, body |-> [error |-> err]]
        ELSE LET mapped == PartnerPayouts(body.partnerHours.items, body.hourlyRate)
             IN  IF mapped.threw
                 THEN [status |-> 500,
                       body |-> [error |-> "Invalid payout calculation for partner"]]
                 ELSE [status |-> 200,
                       body |-> [totalAmount |-> body.totalAmount,
                                 totalHours |-> body.totalHours,
                                 hourlyRate |-> body.hourlyRate,
                                 partnerPayouts |-> mapped.payouts]]

(* ------------------------------ storage -------------------------------- *)

\* storage.createDistribution: the record with the next id, appended
createDistribution(history, record) ==
    Append(history, [id |-> Len(history) + 1,
                     totalAmount |-> record.totalAmount,
                     totalHours |-> record.totalHours,
                     hourlyRate |-> record.hourlyRate,
                     partnerData |-> record.partnerData])

\* String.prototype.trim on a string given as a sequence of characters
RECURSIVE TrimStart(_)
TrimStart(s) == IF s # <<>> /\ Head(s) = " " THEN TrimStart(Tail(s)) ELSE s

RECURSIVE TrimEnd(_)
TrimEnd(s) ==
    IF s # <<>> /\ s[Len(s)] = " " THEN TrimEnd(SubSeq(s, 1, Len(s) - 1)) ELSE s

Trim(s) == TrimEnd(TrimStart(s))

\* mutant: the name is tested before trimming only
NameRejectedUntrimmed(name) ==
    \/ name.t = "undefined"
    \/ name.t = "number" /\ name.v = 0
    \/ name.t = "string" /\ name.s = <<>>
    \/ name.t # "string"

\* !name || typeof name !== 'string' || name.trim() === ''
NameRejected(name) ==
    \/ name.t = "undefined"
    \/ name.t = "number" /\ name.v = 0
    \/ name.t = "string" /\ name.s = <<>>
    \/ name.t # "string"
    \/ Trim(name.s) = <<>>

\* mutant: the new partner is put at the head of the list
createPartnerUnshift(store, nextId, insertPartner) ==
    LET partner == [name |-> insertPartner.name, id |-> nextId]
    IN  [partners |-> <<partner>> \o store, partnerId |-> nextId + 1,
         partner |-> partner]

\* mutant: the id is read but the counter is not advanced
createPartnerNoIncrement(store, nextId, insertPartner) ==
    LET partner == [name |-> insertPartner.name, id |-> nextId]
    IN  [partners |-> Append(store, partner), partnerId |-> nextId,
         partner |-> partner]

\* createPartner: const id = partnerId++; partners.push({...insertPartner, id})
createPartner(store, nextId, insertPartner) ==
    LET partner == [name |-> insertPartner.name, id |-> nextId]
    IN  [partners |-> Append(store, partner), partnerId |-> nextId + 1,
         partner |-> partner]

\* the partners function run on one request against the store (store, nextId):
\* GET lists, POST creates, anything else is refused
PartnersOutcome(req, store, nextId) ==
    IF req.method = "GET"
    THEN [partners |-> store, partnerId |-> nextId,
          response |-> [status |-> 200, body |-> store]]
    ELSE IF req.method = "POST"
    THEN IF NameRejected(req.body.name)
         THEN [partners |-> store, partnerId |-> nextId,
               response |-> [status |-> 400,
                             body |-> [error |-> "Partner name is required"]]]
         ELSE LET created == createPartner(store, nextId,
                                           [name |-> Trim(req.body.name.s)])
              IN  [partners |-> created.partners, partnerId |-> created.partnerId,
                   response |-> [status |-> 201, body |-> created.partner]]
    ELSE [partners |-> store, partnerId |-> nextId,
          response |-> [status |-> 405, body |-> [error |-> "Method not allowed"]]]

(* --------------------------- request bodies ---------------------------- *)

NoRequest == [op |-> "none"]
NoResponse == [status |-> 0]
NoAnalysis == [called |-> FALSE]
NoExchange == [stage |-> "none"]

\* concurrent clients of the partners function
MaxClients == 2
Clients == 1..MaxClients

AmountValues == {Rat(0, 1), Rat(100, 1), Infinity}
HoursTotalValues == {Rat(0, 1), Rat(4, 1), Undefined}
RateValues == {Rat(0, 1), Rat(25, 1), Rat(100, 3), Infinity}

PartnerEntries ==
    {[name |-> "A", hours |-> h] :
        h \in {Rat(0, 1), Rat(1, 1), Rat(3, 1), Rat(MaxValue, 1)}}
    \cup {[name |-> "", hours |-> Rat(1, 1)]}

PartnerLists ==
    UNION {[1..n -> PartnerEntries] : n \in 0..MaxPartners}

PartnerHoursValues ==
    {[isArray |-> TRUE, items |-> l] : l \in PartnerLists}
    \cup {[isArray |-> FALSE, items |-> <<>>]}

CalculateBodies ==
    [partnerHours : PartnerHoursValues, totalAmount : AmountValues,
     totalHours : HoursTotalValues, hourlyRate : RateValues]

\* the bodies replayed to compare two invocations
ProbeBodies ==
    {b \in CalculateBodies :
        /\ b.totalAmount = Rat(100, 1)
        /\ b.totalHours = Rat(4, 1)
        /\ b.hourlyRate \in {Rat(25, 1), Rat(100, 3)}
        /\ b.partnerHours.isArray
        /\ Len(b.partnerHours.items) <= 1
        /\ \A i \in DOMAIN b.partnerHours.items :
              b.partnerHours.items[i].hours \in {Rat(1, 1), Rat(MaxValue, 1)}}

SaveBodies ==
    {[totalAmount |-> Rat(100, 1), totalHours |-> Rat(4, 1),
      hourlyRate |-> Rat(25, 1), partnerData |-> <<>>],
     [totalAmount |-> Rat(0, 1), totalHours |-> Rat(0, 1),
      hourlyRate |-> Undefined, partnerData |-> <<>>]}

NameValues ==
    {[t |-> "undefined", v |-> 0, s |-> <<>>],
     [t |-> "number", v |-> 7, s |-> <<>>],
     [t |-> "string", v |-> 0, s |-> <<>>],
     [t |-> "string", v |-> 0, s |-> <<" ">>],
     [t |-> "string", v |-> 0, s |-> <<"A">>],
     [t |-> "string", v |-> 0, s |-> <<" ", "A", " ">>]}

CalculateRequests == {[op |-> "calculate", body |-> b] : b \in CalculateBodies}
ProbeRequests == {[op |-> "calculate", body |-> b] : b \in ProbeBodies}
SaveRequests == {[op |-> "save", body |-> b] : b \in SaveBodies}
HistoryRequests == {[op |-> "history"]}
PartnersRequests ==
    {[op |-> "partners", method |-> m, body |-> [name |-> n]] :
        m \in {"GET", "POST", "DELETE"}, n \in NameValues}
RouteRequests ==
    {[op |-> "createPartner", method |-> "POST", body |-> [name |-> n]] :
        n \in NameValues}
    \cup {[op |-> "listPartners", method |-> "GET"]}

(* ------------------------------- OCR ----------------------------------- *)

\* an error message, with the HTTP status and the provider's detail it embeds
Err(message) == [message |-> message, status |-> 0, detail |-> ""]

MissingKeyError == Err("API key missing. Please configure the Gemini API key.")
BadRequestError ==
    Err("Bad request to Gemini API. Check your API key permissions and image format.")
AuthError ==
    Err("Authentication error. Your Gemini API key may be invalid or missing Vision API permissions.")
QuotaError ==
    Err("Gemini API quota exceeded. Please try again later or check your API key limits.")
NoTextError ==
    Err("No text extracted from the image. Try a clearer image or manual entry.")
UnexpectedError == Err("An unexpected error occurred while processing the image.")
ApiError(status, detail) ==
    [message |-> "API Error", status |-> status, detail |-> detail]

NullText == [isNull |-> TRUE, lines |-> <<>>]
Text(lines) == [isNull |-> FALSE, lines |-> lines]

\* errorMessage.replace(/api_key:[a-zA-Z0-9-_]+/, "api_key:[REDACTED]")
Redact(message) ==
    IF message = "invalid api_key:k1" THEN "invalid api_key:[REDACTED]" ELSE message

\* the message of a non-OK response: errorData.error.message when the body
\* parses and has one, the default otherwise
ErrorMessageOf(fetched) ==
    IF fetched.message # "" THEN Redact(fetched.message)
    ELSE "Failed to call Gemini API"

\* parts.map(part => part.text).filter(Boolean).join("\n"), a text being the
\* sequence of its lines
RECURSIVE JoinParts(_)
JoinParts(parts) ==
    IF parts = <<>> THEN <<>>
    ELSE (IF Head(parts).has THEN Head(parts).lines ELSE <<>>)
             \o JoinParts(Tail(parts))

\* the body of analyzeImage's try block: what it returns, or that it threw
AnalyzeTry(env) ==
    IF ~env.apiKey THEN [threw |-> FALSE, text |-> NullText, error |-> MissingKeyError]
    ELSE IF env.fetch.kind = "throws" THEN [threw |-> TRUE]
    ELSE IF env.fetch.kind = "http"
    THEN IF env.fetch.textThrows THEN [threw |-> TRUE]
         ELSE IF env.fetch.status = 400
         THEN [threw |-> FALSE, text |-> NullText, error |-> BadRequestError]
         ELSE IF env.fetch.status = 403
         THEN [threw |-> FALSE, text |-> NullText, error |-> AuthError]
         ELSE IF env.fetch.status = 429
         THEN [threw |-> FALSE, text |-> NullText, error |-> QuotaError]
         ELSE [threw |-> FALSE, text |-> NullText,
               error |-> ApiError(env.fetch.status, ErrorMessageOf(env.fetch))]
    ELSE IF env.fetch.data = "jsonThrows" THEN [threw |-> TRUE]
    ELSE IF env.fetch.data \in {"noCandidates", "emptyCandidates"}
    THEN [threw |-> FALSE, text |-> NullText, error |-> NoTextError]
    ELSE IF env.fetch.data = "noContent" THEN [threw |-> TRUE]
    ELSE LET extractedText == JoinParts(env.fetch.parts)
         IN  IF extractedText = <<>>
             THEN [threw |-> FALSE, text |-> NullText, error |-> NoTextError]
             ELSE [threw |-> FALSE, text |-> Text(extractedText)]

\* mutant: analyzeImage without its catch block
analyzeImageNoCatch(env) == AnalyzeTry(env)

\* analyzeImage: the catch block turns every exception into a returned error
analyzeImage(env) ==
    LET tried == AnalyzeTry(env)
    IN  IF tried.threw
        THEN [threw |-> FALSE, text |-> NullText, error |-> UnexpectedError]
        ELSE tried

\* extractPartnerHours: the lines of the form name, separator, number, in order
extractPartnerHours(text) ==
    LET matching == SelectSeq(text.lines, LAMBDA l : l.match)
    IN  [i \in DOMAIN matching |->
            [name |-> matching[i].name, hours |-> matching[i].hours]]

\* formatOCRResult: the text as displayed (its layout is not modelled)
formatOCRResult(text) == text.lines

\* !result.text
TextMissing(result) == result.text.isNull \/ result.text.lines = <<>>

ProcessingError ==
    [error |-> Err("Failed to process the image. Please try manual entry instead."),
     suggestManualEntry |-> TRUE]

\* mutant: the failure branch sends its response but does not return
OcrSentFallingThrough(outcome, processingThrows) ==
    IF outcome.threw THEN <<[status |-> 500, body |-> ProcessingError]>>
    ELSE IF TextMissing(outcome)
    THEN <<[status |-> 500,
            body |-> [error |-> outcome.error, suggestManualEntry |-> TRUE]],
           [status |-> 500, body |-> ProcessingError]>>
    ELSE IF processingThrows THEN <<[status |-> 500, body |-> ProcessingError]>>
    ELSE <<[status |-> 200,
            body |-> [extractedText |-> formatOCRResult(outcome.text),
                      partnerHours |-> extractPartnerHours(outcome.text)]]>>

\* the responses the OCR route sends once analyzeImage has settled, in order
OcrSent(outcome, processingThrows) ==
    IF outcome.threw THEN <<[status |-> 500, body |-> ProcessingError]>>
    ELSE IF TextMissing(outcome)
    THEN <<[status |-> 500,
            body |-> [error |-> IF "error" \in DOMAIN outcome THEN outcome.error
                                ELSE Err("Failed to extract text from image"),
                      suggestManualEntry |-> TRUE]]>>
    ELSE IF processingThrows THEN <<[status |-> 500, body |-> ProcessingError]>>
    ELSE <<[status |-> 200,
            body |-> [extractedText |-> formatOCRResult(outcome.text),
                      partnerHours |-> extractPartnerHours(outcome.text)]]>>

\* the lines a provider's answer is made of
MatchingLine == [match |-> TRUE, name |-> "A", hours |-> Rat(32, 1)]
OtherLine == [match |-> FALSE, name |-> "", hours |-> Rat(0, 1)]

PartValues ==
    {[has |-> FALSE, lines |-> <<>>],
     [has |-> TRUE, lines |-> <<>>],
     [has |-> TRUE, lines |-> <<MatchingLine>>],
     [has |-> TRUE, lines |-> <<OtherLine, MatchingLine>>]}

FetchOutcomes ==
    {[kind |-> "throws"]}
    \cup {[kind |-> "http", status |-> st, message |-> m, textThrows |-> FALSE] :
             st \in {400, 403, 429, 500}, m \in {"", "invalid api_key:k1"}}
    \cup {[kind |-> "http", status |-> 500, message |-> "", textThrows |-> TRUE]}
    \cup {[kind |-> "ok", data |-> d, parts |-> <<>>] :
             d \in {"jsonThrows", "noCandidates", "emptyCandidates", "noContent"}}
    \cup {[kind |-> "ok", data |-> "candidates", parts |-> ps] :
             ps \in {<<>>} \cup {<<p>> : p \in PartValues}
                    \cup {<<p, q>> : p \in PartValues, q \in PartValues}}

Environments == [apiKey : BOOLEAN, fetch : FetchOutcomes]

OcrRequests == {[op |-> "ocr", file |-> f] : f \in BOOLEAN}

(* ------------------------------ actions -------------------------------- *)

Init ==
    /\ partners = <<>>
    /\ partnerId = 1
    /\ distributions = <<>>
    /\ request = NoRequest
    /\ response = NoResponse
    /\ probe = [state |-> "off"]
    /\ analysis = NoAnalysis
    /\ inflight = [c \in Clients |-> NoExchange]

InitPure ==
    /\ partners = <<>>
    /\ partnerId = 1
    /\ distributions = <<>>
    /\ request = NoRequest
    /\ response = NoResponse
    /\ probe = [state |-> "armed"]
    /\ analysis = NoAnalysis
    /\ inflight = [c \in Clients |-> NoExchange]

Pending(op) == request.op = op /\ response = NoResponse

\* a request out of reqs arrives; the stores take at most MaxStored records each
Receive(reqs) ==
    /\ request = NoRequest
    /\ \E req \in reqs :
          /\ req.op = "save" => Len(distributions) < MaxStored
          /\ req.op \in {"partners", "createPartner", "listPartners"}
                => Len(partners) < MaxStored
          /\ request' = req
    /\ UNCHANGED <<partners, partnerId, distributions, response, probe,
                   analysis, inflight>>

\* mutant: the calculation also persists its result in the history
CalculateSaving ==
    /\ Pending("calculate")
    /\ response' = CalculateResponse(request.body)
    /\ probe' = IF probe.state = "armed"
                THEN [state |-> "set", body |-> request.body, response |-> response',
                      partners |-> Len(partners),
                      distributions |-> Len(distributions)]
                ELSE probe
    /\ distributions' =
          IF response'.status = 200 /\ Len(distributions) < MaxStored
          THEN createDistribution(distributions,
                                  [totalAmount |-> request.body.totalAmount,
                                   totalHours |-> request.body.totalHours,
                                   hourlyRate |-> request.body.hourlyRate,
                                   partnerData |-> <<>>])
          ELSE distributions
    /\ UNCHANGED <<partners, partnerId, request, analysis, inflight>>

\* POST /api/distributions/calculate
Calculate ==
    /\ Pending("calculate")
    /\ response' = CalculateResponse(request.body)
    /\ probe' = IF probe.state = "armed"
                THEN [state |-> "set", body |-> request.body, response |-> response',
                      partners |-> Len(partners),
                      distributions |-> Len(distributions)]
                ELSE probe
    /\ UNCHANGED <<partners, partnerId, distributions, request, analysis, inflight>>

\* POST /api/distributions
SaveDistribution ==
    /\ Pending("save")
    /\ distributions' = createDistribution(distributions, request.body)
    /\ response' = [status |-> 201, body |-> distributions'[Len(distributions')]]
    /\ UNCHANGED <<partners, partnerId, request, probe, analysis, inflight>>

\* GET /api/distributions
GetDistributions ==
    /\ Pending("history")
    /\ response' = [status |-> 200, body |-> distributions]
    /\ UNCHANGED <<partners, partnerId, distributions, request, probe,
                   analysis, inflight>>

\* the partners function (api/partners) on the exchange in flight
PartnersHandler ==
    /\ Pending("partners")
    /\ LET out == PartnersOutcome(request, partners, partnerId)
       IN  /\ partners' = out.partners
           /\ partnerId' = out.partnerId
           /\ response' = out.response
    /\ UNCHANGED <<distributions, request, probe, analysis, inflight>>

\* POST /api/partners of the server
CreatePartnerRoute ==
    /\ Pending("createPartner")
    /\ IF NameRejected(request.body.name)
       THEN /\ response' = [status |-> 400,
                            body |-> [error |-> "Partner name is required"]]
            /\ UNCHANGED <<partners, partnerId>>
       ELSE LET created == createPartner(partners, partnerId,
                                         [name |-> Trim(request.body.name.s)])
            IN  /\ partners' = created.partners
                /\ partnerId' = created.partnerId
                /\ response' = [status |-> 201, body |-> created.partner]
    /\ UNCHANGED <<distributions, request, probe, analysis, inflight>>

\* GET /api/partners of the server
GetPartnersRoute ==
    /\ Pending("listPartners")
    /\ response' = [status |-> 200, body |-> partners]
    /\ UNCHANGED <<partners, partnerId, distributions, request, probe,
                   analysis, inflight>>

\* POST /api/ocr up to its await: without a file the route answers at once,
\* with one it calls analyzeImage, whose result depends on the API key and on
\* what the provider does
OcrAnalyze ==
    /\ Pending("ocr")
    /\ ~analysis.called
    /\ IF ~request.file
       THEN /\ response' = [status |-> 400,
                            body |-> [error |-> Err("No image file provided")],
                            sends |-> 1]
            /\ UNCHANGED analysis
       ELSE /\ \E env \in Environments :
                  analysis' = [called |-> TRUE, outcome |-> analyzeImage(env),
                               processing |-> "none"]
            /\ UNCHANGED response
    /\ UNCHANGED <<partners, partnerId, distributions, request, probe, inflight>>

\* POST /api/ocr after the await: the result is parsed and answered; the
\* parsing helpers may raise an exception, which the route's catch answers
OcrAnswer ==
    /\ Pending("ocr")
    /\ analysis.called
    /\ \E processingThrows \in BOOLEAN :
          LET sent == OcrSent(analysis.outcome, processingThrows)
              reached == ~analysis.outcome.threw /\ ~TextMissing(analysis.outcome)
          IN  /\ response' = [status |-> sent[1].status, body |-> sent[1].body,
                              sends |-> Len(sent)]
              /\ analysis' = [analysis EXCEPT !.processing =
                                 IF ~reached THEN "none"
                                 ELSE IF processingThrows THEN "threw" ELSE "done"]
    /\ UNCHANGED <<partners, partnerId, distributions, request, probe, inflight>>

\* the response is sent and the exchange is over
Respond ==
    /\ response # NoResponse
    /\ request' = NoRequest
    /\ response' = NoResponse
    /\ analysis' = NoAnalysis
    /\ UNCHANGED <<partners, partnerId, distributions, probe, inflight>>

Handle ==
    \/ Calculate
    \/ SaveDistribution
    \/ GetDistributions
    \/ PartnersHandler
    \/ CreatePartnerRoute
    \/ GetPartnersRoute
    \/ OcrAnalyze
    \/ OcrAnswer
    \/ Respond

Next ==
    \/ Receive(CalculateRequests \cup SaveRequests \cup HistoryRequests
                    \cup PartnersRequests \cup RouteRequests \cup OcrRequests)
    \/ Handle

NextPure ==
    \/ Receive(ProbeRequests \cup SaveRequests \cup HistoryRequests
                    \cup PartnersRequests \cup RouteRequests \cup OcrRequests)
    \/ Handle

\* concurrent clients of the partners function.  The function holds no await:
\* once started on a request it runs to its response without yielding, so the
\* requests in flight interleave at whole runs of the function, in any order.
Arrive(c) ==
    /\ inflight[c] = NoExchange
    /\ Len(partners) < MaxStored
    /\ \E req \in PartnersRequests :
          inflight' = [inflight EXCEPT ![c] = [stage |-> "pending", request |-> req]]
    /\ UNCHANGED <<partners, partnerId, distributions, request, response, probe,
                   analysis>>

HandlerRun(c) ==
    /\ inflight[c].stage = "pending"
    /\ LET out == PartnersOutcome(inflight[c].request, partners, partnerId)
       IN  /\ partners' = out.partners
           /\ partnerId' = out.partnerId
           /\ inflight' = [inflight EXCEPT ![c] =
                              [stage |-> "answered", request |-> inflight[c].request,
                               response |-> out.response]]
    /\ UNCHANGED <<distributions, request, response, probe, analysis>>

Deliver(c) ==
    /\ inflight[c].stage = "answered"
    /\ inflight' = [inflight EXCEPT ![c] = NoExchange]
    /\ UNCHANGED <<partners, partnerId, distributions, request, response, probe,
                   analysis>>

NextConcurrent == \E c \in Clients : Arrive(c) \/ HandlerRun(c) \/ Deliver(c)

Spec == Init /\ [][Next]_vars

SpecConcurrent == Init /\ [][NextConcurrent]_vars

SpecPure == InitPure /\ [][NextPure]_vars

(* ------------------------ properties: helpers -------------------------- *)

Responded(op) == request.op = op /\ response # NoResponse
CalcOk == Responded("calculate") /\ response.status = 200

EmptyInputMessage == "Partner hours data is missing or empty"
InvalidInputMessages ==
    {"Total amount must be a positive number",
     "Total hours must be a positive number",
     "Hourly rate must be a positive number",
     "Invalid partner hours data"}

Items == request.body.partnerHours.items
Payouts == response.body.partnerPayouts

RECURSIVE SumPayout(_)
SumPayout(ps) ==
    IF ps = <<>> THEN Rat(0, 1) ELSE Plus(Head(ps).payout, SumPayout(Tail(ps)))

RECURSIVE SumRounded(_)
SumRounded(ps) ==
    IF ps = <<>> THEN Rat(0, 1) ELSE Plus(Head(ps).rounded, SumRounded(Tail(ps)))

AbsRat(a) == Rat(Abs(a.n), a.d)

RECURSIVE Reconstruct(_, _)
Reconstruct(breakdown, ds) ==
    IF ds = {} THEN 0
    ELSE LET d == CHOOSE x \in ds : TRUE
         IN  d * breakdown[d] + Reconstruct(breakdown, ds \ {d})

DenominationSet == {Denominations[i] : i \in DOMAIN Denominations}

NoPayouts == "partnerPayouts" \notin DOMAIN response.body

(* ------------------------------ claims --------------------------------- *)

\* C1: in every successful calculate response the sum of the rounded payouts
\* is within numPartners * (one cent) / 2 of totalAmount.
C1_RoundedSumWithinTolerance ==
    CalcOk =>
        Leq(AbsRat(Minus(response.body.totalAmount, SumRounded(Payouts))),
            Rat(Len(Payouts), 200))

\* C2: every successful calculate response carries the discrepancy
\* totalAmount - sum(rounded) as a field of the result.
C2_DiscrepancyExposed ==
    CalcOk => "discrepancy" \in DOMAIN response.body

\* C3: in every successful calculate response the exact payouts
\* (hours * hourlyRate) sum to totalAmount.
C3_PayoutsSumToTotal ==
    CalcOk => SumPayout(Payouts) = response.body.totalAmount

\* C4: in every successful calculate response hourlyRate equals
\* totalAmount / totalHours, also when the caller supplied them.
C4_RateIsAmountPerHour ==
    CalcOk =>
        response.body.hourlyRate =
            Quotient(response.body.totalAmount, response.body.totalHours)

\* the inputs C5 is about: a non-positive or non-finite total, or a partner
\* whose hours are non-positive or non-finite
BadNumbers ==
    \/ LeZero(request.body.totalAmount) \/ ~IsFinite(request.body.totalAmount)
    \/ LeZero(request.body.totalHours) \/ ~IsFinite(request.body.totalHours)
    \/ \E i \in DOMAIN Items : LeZero(Items[i].hours) \/ ~IsFinite(Items[i].hours)

InvalidInputResponse ==
    /\ response.status = 400
    /\ response.body.error \in InvalidInputMessages
    /\ NoPayouts

\* C5 as stated: whenever a total or a partner's hours is non-positive or
\* non-finite, calculate fails with InvalidInput and returns no payouts.
C5_InvalidInputAlways ==
    Responded("calculate") /\ BadNumbers => InvalidInputResponse

\* C5 amended: the same, for requests whose partner list is a non-empty list.
C5_InvalidInputWhenNonEmpty ==
    Responded("calculate") /\ request.body.partnerHours.isArray /\ Items # <<>>
        /\ BadNumbers
    => InvalidInputResponse

C5_Witness ==
    /\ Responded("calculate")
    /\ Len(Items) = 2
    /\ request.body.totalAmount = Rat(100, 1)
    /\ request.body.totalHours = Rat(4, 1)
    /\ request.body.hourlyRate = Rat(25, 1)
    /\ Items[1].hours = Rat(1, 1)
    /\ Items[2].hours = Rat(0, 1)
    /\ InvalidInputResponse

\* C6: whenever the partner list is empty or not a list, whatever the other
\* inputs, calculate fails with EmptyInput and computes no payout.
C6_EmptyInput ==
    Responded("calculate") /\ (~request.body.partnerHours.isArray \/ Items = <<>>)
    => /\ response.status = 400
       /\ response.body.error = EmptyInputMessage
       /\ NoPayouts

C6_Witness ==
    /\ Responded("calculate")
    /\ request.body.partnerHours.isArray
    /\ Items = <<>>
    /\ request.body.totalAmount = Rat(0, 1)
    /\ request.body.hourlyRate = Infinity
    /\ response.body.error = EmptyInputMessage

\* C7: for every partner payout of a returned distribution, the sum of
\* denomination * count over billBreakdown is exactly the rounded amount.
C7_BreakdownReconstructsRounded ==
    CalcOk =>
        \A i \in DOMAIN Payouts :
            Rat(Reconstruct(Payouts[i].billBreakdown,
                            DOMAIN Payouts[i].billBreakdown), 100)
                = Payouts[i].rounded

C7_Witness ==
    /\ CalcOk
    /\ \E i \in DOMAIN Payouts :
          /\ Payouts[i].rounded = Rat(3333, 100)
          /\ Payouts[i].payout # Payouts[i].rounded
          /\ Cardinality(DOMAIN Payouts[i].billBreakdown) >= 4

\* C8: for every payout p >= 0 the greedy walk over the denominations, largest
\* first, ends with nothing remaining, and every recorded count is a positive
\* integer recorded against a denomination.
C8_GreedyWalkExhausts ==
    CalcOk =>
        \A i \in DOMAIN Payouts :
            LET walk == GreedyWalk(RoundToCents(Payouts[i].payout), 1, <<>>)
            IN  /\ walk.remaining = 0
                /\ DOMAIN Payouts[i].billBreakdown \subseteq DenominationSet
                /\ \A d \in DOMAIN Payouts[i].billBreakdown :
                      Payouts[i].billBreakdown[d] \in Nat \ {0}

C8_Witness ==
    /\ CalcOk
    /\ \E i \in DOMAIN Payouts :
          /\ Payouts[i].payout = Rat(100, 3)
          /\ 1 \in DOMAIN Payouts[i].billBreakdown
          /\ 2000 \in DOMAIN Payouts[i].billBreakdown
          /\ 500 \notin DOMAIN Payouts[i].billBreakdown

\* C9: if a partner's exact payout is negative or non-finite the operation
\* fails as a whole with an error and no payouts; a response never carries
\* payouts for only some of the partners.
C9_InvalidPayoutFailsWhole ==
    /\ Responded("calculate") /\ ValidationError(request.body) = ""
          /\ (\E i \in DOMAIN Items :
                 LET p == Times(Items[i].hours, request.body.hourlyRate)
                 IN  ~IsFinite(p) \/ LtZero(p))
       => /\ response.status = 500
          /\ "error" \in DOMAIN response.body
          /\ NoPayouts
    /\ CalcOk => Len(Payouts) = Len(Items)

C9_Witness ==
    /\ Responded("calculate")
    /\ Len(Items) = 2
    /\ IsFinite(Times(Items[1].hours, request.body.hourlyRate))
    /\ ~IsFinite(Times(Items[2].hours, request.body.hourlyRate))
    /\ response.status = 500
    /\ NoPayouts

IsPrefix(a, b) == Len(a) <= Len(b) /\ SubSeq(b, 1, Len(a)) = a

PartnerCreateStep ==
    /\ Pending("partners") \/ Pending("createPartner")
    /\ response' # NoResponse
    /\ response'.status = 201

PartnerGetStep ==
    /\ Pending("listPartners") \/ (Pending("partners") /\ request.method = "GET")
    /\ response' # NoResponse

C11_StoresAppendOnly ==
    [][/\ IsPrefix(partners, partners')
       /\ IsPrefix(distributions, distributions')
       /\ partners' # partners => PartnerCreateStep
       /\ distributions' # distributions => Pending("save")
       /\ PartnerCreateStep => partners' = Append(partners, response'.body)
       /\ (Pending("save") /\ response' # NoResponse)
             => /\ response'.status = 201
                /\ distributions' = Append(distributions, response'.body)
       /\ PartnerGetStep => response'.body = partners /\ partners' = partners
       /\ (Pending("history") /\ response' # NoResponse)
             => response'.body = distributions /\ distributions' = distributions
      ]_vars

C11_Witness ==
    /\ Responded("history")
    /\ Len(response.body) = 2
    /\ response.body[1].id = 1
    /\ response.body[2].id = 2
    /\ response.body[1].totalAmount # response.body[2].totalAmount
    /\ Len(partners) = 2
    /\ partners[1].id = 1
    /\ partners[2].id = 2

\* v > 0
GtZero(v) == (v.k \in {"num", "inf"}) /\ v.n > 0

\* C12: every distribution in the saved history has totalAmount > 0,
\* totalHours > 0 and hourlyRate > 0.
C12_SavedDistributionsPositive ==
    \A i \in DOMAIN distributions :
        /\ GtZero(distributions[i].totalAmount)
        /\ GtZero(distributions[i].totalHours)
        /\ GtZero(distributions[i].hourlyRate)

\* the names C15 calls missing, not a string, or empty after trimming
NameUnusable(name) == name.t # "string" \/ Trim(name.s) = <<>>

PartnersStep ==
    /\ Pending("partners") \/ Pending("createPartner") \/ Pending("listPartners")
    /\ response' # NoResponse

\* C15: the partner store changes only on a successful creation.  A POST whose
\* name is missing, not a string or empty after trimming is answered 400, a
\* method other than GET and POST 405, a GET with the list, each leaving the
\* list and the id counter as they were; a successful POST is answered 201 and
\* appends exactly one partner, named by the trimmed, non-empty input.
C15_StoreChangesOnlyOnCreation ==
    [][/\ (partners' # partners \/ partnerId' # partnerId)
             => PartnersStep /\ request.method = "POST" /\ response'.status = 201
       /\ PartnersStep =>
             /\ request.method = "GET"
                   => /\ response'.status = 200
                      /\ response'.body = partners
                      /\ UNCHANGED <<partners, partnerId>>
             /\ request.method \notin {"GET", "POST"}
                   => /\ response'.status = 405
                      /\ UNCHANGED <<partners, partnerId>>
             /\ (request.method = "POST" /\ NameUnusable(request.body.name))
                   => /\ response'.status = 400
                      /\ UNCHANGED <<partners, partnerId>>
             /\ (request.method = "POST" /\ ~NameUnusable(request.body.name))
                   => /\ response'.status = 201
                      /\ Len(partners') = Len(partners) + 1
                      /\ SubSeq(partners', 1, Len(partners)) = partners
                      /\ partners'[Len(partners')].name = Trim(request.body.name.s)
                      /\ partners'[Len(partners')].name # <<>>
      ]_vars

C15_Witness ==
    /\ Responded("partners")
    /\ request.method = "POST"
    /\ request.body.name.s = <<" ", "A", " ">>
    /\ response.status = 201
    /\ response.body.name = <<"A">>
    /\ Len(partners) = 2
    /\ partners[2] = response.body

\* C16: whatever the interleaving of concurrent creation requests, the
\* partner ids are pairwise distinct, the k-th partner created has id k, and
\* the number of partners stored is partnerId - 1.
C16_IdsSequentialUnderConcurrency ==
    /\ \A i \in DOMAIN partners : partners[i].id = i
    /\ \A i, j \in DOMAIN partners : i # j => partners[i].id # partners[j].id
    /\ Len(partners) = partnerId - 1

\* both clients' creations were in flight together, and the second client's
\* was run first
C16_Witness ==
    /\ inflight[1].stage = "answered"
    /\ inflight[2].stage = "answered"
    /\ inflight[1].response.status = 201
    /\ inflight[2].response.status = 201
    /\ inflight[1].response.body.id = 2
    /\ inflight[2].response.body.id = 1
    /\ Len(partners) = 2

\* the five failure kinds the OCR provider is said to yield, and the two
\* further ones analyzeImage returns
FiveFailureMessages ==
    {MissingKeyError.message, AuthError.message, QuotaError.message,
     NoTextError.message, UnexpectedError.message}
SevenFailureMessages ==
    FiveFailureMessages \cup {BadRequestError.message, "API Error"}

TextOrFailure(result, failures) ==
    /\ ~result.threw
    /\ \/ /\ ~result.text.isNull
          /\ result.text.lines # <<>>
          /\ "error" \notin DOMAIN result
       \/ /\ result.text.isNull
          /\ "error" \in DOMAIN result
          /\ result.error.message \in failures

\* C13 as stated: analyzeImage returns without throwing, with either a
\* non-empty text and no error, or no text and a failure of one of the five
\* kinds MissingKey, AuthError, QuotaExceeded, NoTextFound, Unexpected.
C13_FiveFailureKinds ==
    analysis.called => TextOrFailure(analysis.outcome, FiveFailureMessages)

\* C13 amended: the same, the failure being one of seven kinds: the five, a
\* bad request (HTTP 400) or an API error (any other non-OK status).
C13_TextOrTypedFailure ==
    analysis.called => TextOrFailure(analysis.outcome, SevenFailureMessages)

C13_Witness ==
    /\ analysis.called
    /\ analysis.outcome.text.isNull
    /\ "error" \in DOMAIN analysis.outcome
    /\ analysis.outcome.error = ApiError(500, "invalid api_key:[REDACTED]")

====
